---- MODULE Spec2Model ----
(***************************************************************************)
(* Model of the update coordination core of the Yahoo finance component    *)
(* (custom_components/yahoofinance/__init__.py): the symbol list, the      *)
(* fetch-parse-store refresh attempt, the one-shot retry / warm-up timer   *)
(* and the paths that request a refresh.                                   *)
(*                                                                         *)
(* The coordinator derives from Home Assistant's DataUpdateCoordinator     *)
(* (imported at line 16) and arms its timers with event.async_call_later   *)
(* (imported at line 14).  Their behaviour is modelled as the library      *)
(* implements it: async_refresh, the request-refresh Debouncer (cooldown   *)
(* 10 s, immediate), the interval timer and the event loop's one-shot      *)
(* timers.  Each event-loop step (the code between two awaits that yield)  *)
(* is one action.                                                          *)
(***************************************************************************)
EXTENDS Integers, Sequences, FiniteSets, TLC

\* ------------------------------------------------------------------ bounds
\* Longest symbol list the model lets add_symbol build.
MaxSymbols == 3
\* Refresh attempts that may be awaiting their fetch at the same time.
MaxInFlight == 2
\* Size of the pool of one-shot timer handles of the event loop.
MaxTimers == 2
\* The counters of one debounce window saturate here.
MaxCount == 2

\* ------------------------------------------------------ program constants
WEBSESSION_TIMEOUT == 15
DELAY_ASYNC_REQUEST_REFRESH == 5
FAILURE_ASYNC_REQUEST_REFRESH == 20

\* --------------------------------------------------------------- JSON values
\* A parsed JSON document, tagged by its Python type.
JNull == [t |-> "null"]
JStr(s) == [t |-> "str", s |-> s]
JNum(n) == [t |-> "num", n |-> n]
JList(l) == [t |-> "list", l |-> l]
JObj(f) == [t |-> "obj", f |-> f]

\* The empty dict {}.
EmptyDict == [k \in {} |-> JNull]

\* Python's None where a dict is expected (coordinator.data before any refresh).
PyNone == JNull

\* dict.get(key, default)
Get(d, key, default) == IF key \in DOMAIN d THEN d[key] ELSE default

\* d[key] = value on a dict d
Put(d, key, value) ==
    [k \in (DOMAIN d) \cup {key} |-> IF k = key THEN value ELSE d[k]]

\* ---------------------------------------------------------- const.py schema
\* The closed schema of a QuoteRecord: (key, is-currency) pairs for the numeric
\* fields, plain keys for the string fields.
NUMERIC_DATA_KEYS ==
    << <<"regularMarketPrice", TRUE>>,
       <<"regularMarketChange", TRUE>>,
       <<"twoHundredDayAverageChangePercent", FALSE>> >>

STRING_DATA_KEYS == <<"currency", "shortName">>

\* ------------------------------------------------------- parse_symbol_data
\* Faulty variant: every numeric field is read under the (key, flag) pair instead of
\* the key, so it always takes the default.
parse_symbol_data_pair_as_key(symbol_data) ==
    LET numeric == {NUMERIC_DATA_KEYS[i][1] : i \in 1..Len(NUMERIC_DATA_KEYS)}
        strings == {STRING_DATA_KEYS[i] : i \in 1..Len(STRING_DATA_KEYS)}
    IN  [key \in numeric \cup strings |->
            IF key \in numeric
            THEN JNum(0)
            ELSE Get(symbol_data, key, JNull)]

\* Faulty variant: the record starts as a copy of the element, so the element's
\* other keys stay in it.
parse_symbol_data_copies_element(symbol_data) ==
    LET numeric == {NUMERIC_DATA_KEYS[i][1] : i \in 1..Len(NUMERIC_DATA_KEYS)}
        strings == {STRING_DATA_KEYS[i] : i \in 1..Len(STRING_DATA_KEYS)}
    IN  [key \in numeric \cup strings \cup DOMAIN symbol_data |->
            IF key \in numeric
            THEN Get(symbol_data, key, JNum(0))
            ELSE Get(symbol_data, key, JNull)]

parse_symbol_data(symbol_data) ==
    LET numeric == {NUMERIC_DATA_KEYS[i][1] : i \in 1..Len(NUMERIC_DATA_KEYS)}
        strings == {STRING_DATA_KEYS[i] : i \in 1..Len(STRING_DATA_KEYS)}
    IN  [key \in numeric \cup strings |->
            IF key \in numeric
            THEN Get(symbol_data, key, JNum(0))
            ELSE Get(symbol_data, key, JNull)]

\* ------------------------------------------------------- fetch outcomes
\* What get_json can produce: an exception raised by the fetch, or the parsed
\* document.  Elements of a result list are dicts (records) of JSON values.
BABA_1 ==
    [symbol |-> JStr("BABA"), regularMarketPrice |-> JNum(23273),
     regularMarketChange |-> JNum(-566),
     twoHundredDayAverageChangePercent |-> JNum(-1261)]

BABA_2 ==
    [symbol |-> JStr("BABA"), regularMarketPrice |-> JNum(23000),
     currency |-> JStr("USD"), marketState |-> JStr("REGULAR")]

XYZ_1 ==
    [symbol |-> JStr("XYZ"), regularMarketPrice |-> JNum(12),
     shortName |-> JStr("Symbol XYZ")]

NoSymbol_1 == [regularMarketPrice |-> JNum(1)]

\* The fetch outcomes, by number: see Fetch.
Outcomes == 1..12

Raised(exc) == [raised |-> TRUE, exc |-> exc, json |-> JNull]

Returned(json) == [raised |-> FALSE, exc |-> "", json |-> json]

QuoteResponse(qr) == JObj([quoteResponse |-> JObj(qr)])

\* The outcome of the fetch of get_json, by number.
Fetch(o) ==
    CASE o = 1 -> Raised("TimeoutError")
      [] o = 2 -> Raised("ClientError")
      [] o = 3 -> Returned(JNull)
      [] o = 4 -> Returned(JObj(EmptyDict))
      [] o = 5 -> Returned(QuoteResponse(
                      [error |-> JStr("rate limited"), result |-> JNull]))
      [] o = 6 -> Returned(QuoteResponse([error |-> JNull]))
      [] o = 7 -> Returned(QuoteResponse([error |-> JNull, result |-> JNull]))
      [] o = 8 -> Returned(QuoteResponse(
                      [error |-> JNull, result |-> JList(<<BABA_1, NoSymbol_1>>)]))
      [] o = 9 -> Returned(QuoteResponse(
                      [error |-> JNull, result |-> JList(<<BABA_1>>)]))
      [] o = 10 -> Returned(QuoteResponse(
                      [result |-> JList(<<XYZ_1, BABA_2>>)]))
      [] o = 11 -> Returned(QuoteResponse(
                      [error |-> JNull, result |-> JList(<<>>)]))
      [] OTHER -> Returned(QuoteResponse(
                      [error |-> JNull, result |-> JList(<<BABA_1, BABA_2>>)]))

\* -------------------------------------------------------------- get_json
\* The request is built from the symbol list when the fetch starts (line
\* 241); the document or the exception arrives later.
get_json(o) == Fetch(o)

\* ---------------------------------------------------------- _async_update
\* The loop of lines 276-285 over result[i..]: acc is the dict built so far.
RECURSIVE BuildData(_, _, _)
BuildData(result, i, acc) ==
    IF i > Len(result)
    THEN [raised |-> FALSE, exc |-> "", msg |-> JNull, data |-> JObj(acc)]
    ELSE LET symbol_data == result[i]
         IN  IF "symbol" \notin DOMAIN symbol_data
             THEN [raised |-> TRUE, exc |-> "KeyError", msg |-> JStr("symbol"),
                   data |-> PyNone]
             ELSE BuildData(result, i + 1,
                            Put(acc, symbol_data["symbol"].s,
                                parse_symbol_data(symbol_data)))

UpdateFailed(msg) ==
    [raised |-> TRUE, exc |-> "UpdateFailed", msg |-> msg, data |-> PyNone]

\* Faulty variant: 'result' is validated before the embedded 'error'.
_async_update_result_first(o) ==
    LET got == get_json(o)
        json == got.json
    IN  IF got.raised
        THEN [raised |-> TRUE, exc |-> got.exc, msg |-> JNull, data |-> PyNone]
        ELSE IF json.t = "null"
        THEN UpdateFailed(JStr("No data received"))
        ELSE IF "quoteResponse" \notin DOMAIN json.f
        THEN UpdateFailed(JStr("Data invalid, 'quoteResponse' not found."))
        ELSE LET quoteResponse == json.f["quoteResponse"].f
             IN  IF "result" \notin DOMAIN quoteResponse
                 THEN UpdateFailed(JStr("Data invalid, no 'result' found"))
                 ELSE IF quoteResponse["result"].t = "null"
                 THEN UpdateFailed(JStr("Data invalid, 'result' is None"))
                 ELSE IF "error" \in DOMAIN quoteResponse
                         /\ quoteResponse["error"].t # "null"
                 THEN UpdateFailed(quoteResponse["error"])
                 ELSE BuildData(quoteResponse["result"].l, 1, EmptyDict)

\* The result of _async_update for fetch outcome o: the exception it raises
\* or the data it returns.
_async_update(o) ==
    LET got == get_json(o)
        json == got.json
    IN  IF got.raised
        THEN [raised |-> TRUE, exc |-> got.exc, msg |-> JNull, data |-> PyNone]
        ELSE IF json.t = "null"
        THEN UpdateFailed(JStr("No data received"))
        ELSE IF "quoteResponse" \notin DOMAIN json.f
        THEN UpdateFailed(JStr("Data invalid, 'quoteResponse' not found."))
        ELSE LET quoteResponse == json.f["quoteResponse"].f
             IN  IF "error" \in DOMAIN quoteResponse
                    /\ quoteResponse["error"].t # "null"
                 THEN UpdateFailed(quoteResponse["error"])
                 ELSE IF "result" \notin DOMAIN quoteResponse
                 THEN UpdateFailed(JStr("Data invalid, no 'result' found"))
                 ELSE LET result == quoteResponse["result"]
                      IN  IF result.t = "null"
                          THEN UpdateFailed(JStr("Data invalid, 'result' is None"))
                          ELSE BuildData(result.l, 1, EmptyDict)

\* ------------------------------------------------------------------ state
VARIABLES
    pc,                        \* where async_setup is: "init", "startup", "running"
    tasks,                     \* tasks async_setup created that have not run yet
    domain_config,             \* domain_config[CONF_SYMBOLS] after normalize_input
    _symbols,                  \* coordinator._symbols
    data,                      \* coordinator.data
    last_update_success,       \* coordinator.last_update_success
    _refresh_remover,          \* coordinator._refresh_remover: 0 (None) or a timer handle
    timers,                    \* the event loop's live one-shot timers of async_call_later
    _listeners,                \* DataUpdateCoordinator._listeners is non-empty
    _unsub_refresh,            \* DataUpdateCoordinator._unsub_refresh: interval timer armed
    _unsub_after,              \* the fetches that end before the interval timer fires
    _timer_task,               \* Debouncer._timer_task: cooldown timer pending
    _execute_at_end_of_timer,  \* Debouncer._execute_at_end_of_timer
    _execute_lock,             \* Debouncer._execute_lock is held
    inflight,                  \* refresh attempts awaiting their fetch, oldest first
    last,                      \* history: the operation the last step performed
    lastOk,                    \* history: outcome of the latest attempt given a good payload
    window                     \* history: calls and attempts of the current debounce window

vars ==
    <<pc, tasks, domain_config, _symbols, data, last_update_success,
      _refresh_remover, timers, _listeners, _unsub_refresh, _unsub_after,
      _timer_task,
      _execute_at_end_of_timer, _execute_lock, inflight, last, lastOk, window>>

\* --------------------------------------------------------- normalize_input
\* The configured symbols after CONFIG_SCHEMA (upper-cased): plain strings and
\* {symbol, target_currency} dicts mixed.
DefinedSymbols ==
    { << JStr("BABA") >>,
      << JStr("XYZ"),
         JObj([symbol |-> JStr("BABA"), target_currency |-> JStr("EUR")]),
         JStr("XYZ") >> }

Range(seq) == {seq[i] : i \in 1..Len(seq)}

\* The loop of lines 102-110 over defined_symbols[i..].
RECURSIVE NormalizeLoop(_, _, _, _)
NormalizeLoop(defined_symbols, i, symbols, normalized_symbols) ==
    IF i > Len(defined_symbols)
    THEN [symbols |-> symbols, normalized_symbols |-> normalized_symbols]
    ELSE LET value == defined_symbols[i]
         IN  IF value.t = "str"
             THEN IF value.s \notin symbols
                  THEN NormalizeLoop(defined_symbols, i + 1, symbols \cup {value.s},
                           Append(normalized_symbols, JObj([symbol |-> value])))
                  ELSE NormalizeLoop(defined_symbols, i + 1, symbols,
                                     normalized_symbols)
             ELSE IF value.f["symbol"].s \notin symbols
                  THEN NormalizeLoop(defined_symbols, i + 1,
                           symbols \cup {value.f["symbol"].s},
                           Append(normalized_symbols, value))
                  ELSE NormalizeLoop(defined_symbols, i + 1, symbols,
                                     normalized_symbols)

\* list(symbols) of a set of strings: some order of its members.
ListOfSet(S) ==
    {seq \in [1..Cardinality(S) -> S] : Range(seq) = S}

\* Faulty variant: the symbols are returned as a list of every configured entry's
\* symbol, duplicates included.
normalize_input_keeps_duplicates(defined_symbols) ==
    LET r == NormalizeLoop(defined_symbols, 1, {}, <<>>)
    IN  {<<[i \in 1..Len(defined_symbols) |->
               IF defined_symbols[i].t = "str"
               THEN defined_symbols[i].s
               ELSE defined_symbols[i].f["symbol"].s],
           r.normalized_symbols>>}

\* The (list(symbols), normalized_symbols) pairs normalize_input can return.
normalize_input(defined_symbols) ==
    LET r == NormalizeLoop(defined_symbols, 1, {}, <<>>)
    IN  {<<l, r.normalized_symbols>> : l \in ListOfSet(r.symbols)}

\* ------------------------------------------------------------- get_symbols
get_symbols == _symbols

\* ------------------------------------------------------------------ time
\* The model keeps no clock, only the order the delays impose: a fetch ends
\* within WEBSESSION_TIMEOUT (line 240), so a timer armed for longer than that
\* fires after every fetch that was already running when it was armed.
InFlightIds == {inflight[i].id : i \in 1..Len(inflight)}

After(delay) == IF delay > WEBSESSION_TIMEOUT THEN InFlightIds ELSE {}

\* A task created with async_create_task runs before any timer fires, and
\* tasks run in the order of their creation.
NoTaskDue == "request_refresh" \notin tasks

\* The fetch of attempt `id` ended: no timer waits for it any more.
Ended(tm, id) == {[t EXCEPT !.after = @ \ {id}] : t \in tm}

\* ------------------------------------------------------ _add_refresh_later
\* event.async_call_later's remover: cancels the timer if it is still live.
Cancel(tm, handle) == {t \in tm : t.id # handle}

FreeIds(tm) == {i \in 1..MaxTimers : \A t \in tm : t.id # i}

\* The handle the event loop hands out next; MaxTimers + 1 when the pool is used up.
NewId(tm) ==
    LET free == FreeIds(tm) \cup {MaxTimers + 1}
    IN  CHOOSE i \in free : \A j \in free : i <= j

\* History: the add_symbol calls a warm-up timer stands for: its own, and those
\* of the warm-up timer it replaced before that one fired (up to MaxCount).
Burst(cancelled, duration) ==
    IF duration # DELAY_ASYNC_REQUEST_REFRESH
    THEN 0
    ELSE IF \E t \in cancelled : t.adds >= 1
    THEN LET n == 1 + (CHOOSE t \in cancelled : t.adds >= 1).adds
         IN  IF n > MaxCount THEN MaxCount ELSE n
    ELSE 1

\* Faulty variant: the timer armed before is not cancelled.
_add_refresh_later_no_cancel(duration) ==
    LET id == NewId(timers)
    IN  [timers |-> timers \cup {[id |-> id, delay |-> duration,
                                  after |-> After(duration),
                                  adds |-> Burst({}, duration)]},
         remover |-> id]

\* The timers and the remover after _add_refresh_later(duration).
_add_refresh_later(duration) ==
    LET kept == IF _refresh_remover # 0
                THEN Cancel(timers, _refresh_remover)
                ELSE timers
        id == NewId(kept)
    IN  [timers |-> kept \cup {[id |-> id, delay |-> duration,
                                after |-> After(duration),
                                adds |-> Burst(timers \ kept, duration)]},
         remover |-> id]

\* Every timer of tm has a handle of the pool.
InPool(tm) == \A t \in tm : t.id \in 1..MaxTimers

\* -------------------------------------------------------------- add_symbol
\* Faulty variant: the warm-up timer is armed for the failure delay.
add_symbol_failure_delay(symbol) ==
    IF symbol \notin Range(_symbols)
    THEN LET tm == _add_refresh_later(FAILURE_ASYNC_REQUEST_REFRESH)
         IN  [symbols |-> Append(_symbols, symbol), timers |-> tm.timers,
              remover |-> tm.remover, ret |-> TRUE]
    ELSE [symbols |-> _symbols, timers |-> timers,
          remover |-> _refresh_remover, ret |-> FALSE]

\* Faulty variant: the refresh is requested outside the `if`, for a symbol already in
\* the list too.
add_symbol_always_arms(symbol) ==
    LET tm == _add_refresh_later(DELAY_ASYNC_REQUEST_REFRESH)
    IN  IF symbol \notin Range(_symbols)
        THEN [symbols |-> Append(_symbols, symbol), timers |-> tm.timers,
              remover |-> tm.remover, ret |-> TRUE]
        ELSE [symbols |-> _symbols, timers |-> tm.timers,
              remover |-> tm.remover, ret |-> FALSE]

\* The symbol list, the timers, the remover and the return value after
\* add_symbol(symbol).
add_symbol(symbol) ==
    IF symbol \notin Range(_symbols)
    THEN LET tm == _add_refresh_later(DELAY_ASYNC_REQUEST_REFRESH)
         IN  [symbols |-> Append(_symbols, symbol), timers |-> tm.timers,
              remover |-> tm.remover, ret |-> TRUE]
    ELSE [symbols |-> _symbols, timers |-> timers,
          remover |-> _refresh_remover, ret |-> FALSE]

\* _async_update's result for every fetch outcome, computed once.
AsyncUpdateResult == [o \in Outcomes |-> _async_update(o)]

\* ------------------------------------------------ _async_update_with_retry
\* Faulty variant: the exception is raised again without a retry being set up.
_async_update_with_retry_no_retry(o) ==
    LET r == AsyncUpdateResult[o]
    IN  [raised |-> r.raised, exc |-> r.exc, msg |-> r.msg, data |-> r.data,
         timers |-> timers, remover |-> _refresh_remover]

\* Faulty variant: the except block sets up the retry and falls through, so the
\* method returns None instead of raising.
_async_update_with_retry_swallows(o) ==
    LET r == AsyncUpdateResult[o]
    IN  IF ~r.raised
        THEN [raised |-> FALSE, exc |-> "", msg |-> JNull, data |-> r.data,
              timers |-> timers, remover |-> _refresh_remover]
        ELSE LET tm == _add_refresh_later(FAILURE_ASYNC_REQUEST_REFRESH)
             IN  [raised |-> FALSE, exc |-> "", msg |-> JNull, data |-> PyNone,
                  timers |-> tm.timers, remover |-> tm.remover]

\* Faulty variant: `finally` instead of `except`: the retry is set up after a
\* successful update too.
_async_update_with_retry_finally(o) ==
    LET r == AsyncUpdateResult[o]
        tm == _add_refresh_later(FAILURE_ASYNC_REQUEST_REFRESH)
    IN  [raised |-> r.raised, exc |-> r.exc, msg |-> r.msg, data |-> r.data,
         timers |-> tm.timers, remover |-> tm.remover]

\* Faulty variant: the except block raises UpdateFailed in place of the exception
\* it caught.
_async_update_with_retry_wraps(o) ==
    LET r == AsyncUpdateResult[o]
    IN  IF ~r.raised
        THEN [raised |-> FALSE, exc |-> "", msg |-> JNull, data |-> r.data,
              timers |-> timers, remover |-> _refresh_remover]
        ELSE LET tm == _add_refresh_later(FAILURE_ASYNC_REQUEST_REFRESH)
             IN  [raised |-> TRUE, exc |-> "UpdateFailed",
                  msg |-> IF r.exc = "UpdateFailed" THEN r.msg ELSE JStr(r.exc),
                  data |-> PyNone,
                  timers |-> tm.timers, remover |-> tm.remover]

\* Faulty variant: only the records of the symbols in the list at that moment are
\* returned.
_async_update_with_retry_tracked_only(o) ==
    LET r == AsyncUpdateResult[o]
    IN  IF ~r.raised
        THEN [raised |-> FALSE, exc |-> "", msg |-> JNull,
              data |-> JObj([s \in DOMAIN r.data.f \cap Range(_symbols) |->
                                 r.data.f[s]]),
              timers |-> timers, remover |-> _refresh_remover]
        ELSE LET tm == _add_refresh_later(FAILURE_ASYNC_REQUEST_REFRESH)
             IN  [raised |-> TRUE, exc |-> r.exc, msg |-> r.msg, data |-> PyNone,
                  timers |-> tm.timers, remover |-> tm.remover]

\* Faulty variant: the new records are written into the Snapshot stored before.
_async_update_with_retry_merges(o) ==
    LET r == AsyncUpdateResult[o]
        old == IF data = PyNone THEN EmptyDict ELSE data.f
    IN  IF ~r.raised
        THEN [raised |-> FALSE, exc |-> "", msg |-> JNull,
              data |-> JObj([s \in DOMAIN old \cup DOMAIN r.data.f |->
                                 IF s \in DOMAIN r.data.f
                                 THEN r.data.f[s] ELSE old[s]]),
              timers |-> timers, remover |-> _refresh_remover]
        ELSE LET tm == _add_refresh_later(FAILURE_ASYNC_REQUEST_REFRESH)
             IN  [raised |-> TRUE, exc |-> r.exc, msg |-> r.msg, data |-> PyNone,
                  timers |-> tm.timers, remover |-> tm.remover]

\* Faulty variant: the retry delay doubles when the attempt before failed too.
_async_update_with_retry_backoff(o) ==
    LET r == AsyncUpdateResult[o]
    IN  IF ~r.raised
        THEN [raised |-> FALSE, exc |-> "", msg |-> JNull, data |-> r.data,
              timers |-> timers, remover |-> _refresh_remover]
        ELSE LET tm == _add_refresh_later(
                           IF last_update_success
                           THEN FAILURE_ASYNC_REQUEST_REFRESH
                           ELSE 2 * FAILURE_ASYNC_REQUEST_REFRESH)
             IN  [raised |-> TRUE, exc |-> r.exc, msg |-> r.msg, data |-> PyNone,
                  timers |-> tm.timers, remover |-> tm.remover]

\* Faulty variant: the except block sets up the retry and returns the data stored
\* before instead of raising.
_async_update_with_retry_returns_stale(o) ==
    LET r == AsyncUpdateResult[o]
    IN  IF ~r.raised
        THEN [raised |-> FALSE, exc |-> "", msg |-> JNull, data |-> r.data,
              timers |-> timers, remover |-> _refresh_remover]
        ELSE LET tm == _add_refresh_later(FAILURE_ASYNC_REQUEST_REFRESH)
             IN  [raised |-> FALSE, exc |-> "", msg |-> JNull, data |-> data,
                  timers |-> tm.timers, remover |-> tm.remover]

\* What _async_update_with_retry hands to its caller for fetch outcome o (the
\* data returned or the exception raised), with the timers it leaves behind.
_async_update_with_retry(o) ==
    LET r == AsyncUpdateResult[o]
    IN  IF ~r.raised
        THEN [raised |-> FALSE, exc |-> "", msg |-> JNull, data |-> r.data,
              timers |-> timers, remover |-> _refresh_remover]
        ELSE LET tm == _add_refresh_later(FAILURE_ASYNC_REQUEST_REFRESH)
             IN  [raised |-> TRUE, exc |-> r.exc, msg |-> r.msg, data |-> PyNone,
                  timers |-> tm.timers, remover |-> tm.remover]

\* ------------------------------------------------------------ history
Min(a, b) == IF a < b THEN a ELSE b

NoOp ==
    [op |-> "init", sym |-> "", out |-> 0, ret |-> FALSE, raised |-> FALSE,
     exc |-> "", msg |-> JNull, prev |-> {}, same |-> FALSE,
     started |-> FALSE, lost |-> {}, again |-> FALSE]

\* The timers of tm as (handle, delay) pairs.
Handles(tm) == {<<t.id, t.delay>> : t \in tm}

\* The delays of the timers of tm.
Delays(tm) == {t.delay : t \in tm}

\* A call of request_refresh arrived and started `n` attempts (0 or 1).
WindowCall(n) ==
    [calls |-> Min(window.calls + 1, MaxCount),
     attempts |-> Min(window.attempts + n, MaxCount)]

WindowClosed == [calls |-> 0, attempts |-> 0]

\* ------------------------------------- DataUpdateCoordinator.async_refresh
\* Faulty variant: the request is built from the symbols the coordinator was
\* constructed with, not from the list as it is now.
async_refresh_begin_configured(via) ==
    /\ Len(inflight) < MaxInFlight
    /\ _unsub_refresh' = FALSE
    /\ _unsub_after' = {}
    /\ _timer_task' = FALSE
    /\ _execute_at_end_of_timer' = FALSE
    /\ inflight' = Append(inflight,
           [id |-> CHOOSE i \in 1..MaxInFlight :
                       /\ i \notin InFlightIds
                       /\ \A j \in 1..MaxInFlight : j \notin InFlightIds => i <= j,
            via |-> via, req |-> SubSeq(_symbols, 1, Len(domain_config))])

\* The start of async_refresh, up to the await of the fetch in get_json: the
\* interval timer and the debouncer's timer are cancelled, then the update
\* method runs and get_json sends the request for the symbols as they are now.
async_refresh_begin(via) ==
    /\ Len(inflight) < MaxInFlight
    /\ _unsub_refresh' = FALSE
    /\ _unsub_after' = {}
    /\ _timer_task' = FALSE
    /\ _execute_at_end_of_timer' = FALSE
    /\ inflight' = Append(inflight,
           [id |-> CHOOSE i \in 1..MaxInFlight :
                       /\ i \notin InFlightIds
                       /\ \A j \in 1..MaxInFlight : j \notin InFlightIds => i <= j,
            via |-> via, req |-> _symbols])

\* ------------------------------------------------ async_request_refresh
\* DataUpdateCoordinator.async_request_refresh: Debouncer.async_call.  A call
\* during the cooldown is remembered for its end, a call while the function
\* runs is dropped, any other call runs async_refresh at once.
async_request_refresh ==
    IF _timer_task
    THEN /\ _execute_at_end_of_timer' = TRUE
         /\ window' = WindowCall(0)
         /\ UNCHANGED <<_timer_task, _execute_lock, inflight, _unsub_refresh,
                        _unsub_after>>
    ELSE IF _execute_lock
    THEN /\ window' = WindowCall(0)
         /\ UNCHANGED <<_timer_task, _execute_at_end_of_timer, _execute_lock,
                        inflight, _unsub_refresh, _unsub_after>>
    ELSE /\ _execute_lock' = TRUE
         /\ window' = WindowCall(1)
         /\ async_refresh_begin("debounced")

\* ---------------------------------------------------------------- actions
Init ==
    /\ \E defined_symbols \in DefinedSymbols :
           \E pair \in normalize_input(defined_symbols) :
               /\ _symbols = pair[1]
               /\ domain_config = pair[2]
    /\ pc = "init"
    /\ tasks = {}
    /\ data = PyNone
    /\ last_update_success = TRUE
    /\ _refresh_remover = 0
    /\ timers = {}
    /\ _listeners = FALSE
    /\ _unsub_refresh = FALSE
    /\ _unsub_after = {}
    /\ _timer_task = FALSE
    /\ _execute_at_end_of_timer = FALSE
    /\ _execute_lock = FALSE
    /\ inflight = <<>>
    /\ last = NoOp
    /\ lastOk = 0
    /\ window = WindowClosed

\* async_setup, line 134: the initial refresh is started and awaited.
SetupRefresh ==
    /\ pc = "init"
    /\ pc' = "startup"
    /\ async_refresh_begin("startup")
    /\ last' = [NoOp EXCEPT !.op = "setup_refresh",
                            !.started = Len(inflight') > Len(inflight)]
    /\ UNCHANGED <<tasks, domain_config, _symbols, data, last_update_success,
                   _refresh_remover, timers, _listeners, _execute_lock, lastOk,
                   window>>

\* Fetch outcome o is a document _async_update accepts: a quoteResponse without
\* an embedded error whose result is a list of elements that each have a symbol.
WellFormed(o) ==
    LET got == Fetch(o)
    IN  /\ ~got.raised
        /\ got.json.t = "obj"
        /\ "quoteResponse" \in DOMAIN got.json.f
        /\ LET qr == got.json.f["quoteResponse"].f
           IN  /\ "error" \in DOMAIN qr => qr["error"].t = "null"
               /\ "result" \in DOMAIN qr
               /\ qr["result"].t = "list"
               /\ \A i \in 1..Len(qr["result"].l) :
                      "symbol" \in DOMAIN qr["result"].l[i]

WellFormedOutcomes == {o \in Outcomes : WellFormed(o)}

RemoveAt(seq, i) == SubSeq(seq, 1, i - 1) \o SubSeq(seq, i + 1, Len(seq))

\* The fetch of attempt i ends with outcome o: _async_update_with_retry
\* finishes, async_refresh stores the data or records the failure and
\* re-arms the interval timer, the debouncer (when it ran the attempt) starts
\* its cooldown, and async_setup (when it awaited the attempt) runs on to its
\* end, lines 137-161.
FetchComplete(i, o) ==
    LET a == inflight[i]
        r == _async_update_with_retry(o)
    IN  /\ InPool(r.timers)
        /\ timers' = Ended(r.timers, a.id)
        /\ _refresh_remover' = r.remover
        /\ data' = IF r.raised THEN data ELSE r.data
        /\ last_update_success' = ~r.raised
        /\ _unsub_refresh' = IF _listeners THEN TRUE ELSE _unsub_refresh
        /\ _unsub_after' = IF _listeners
                           THEN InFlightIds \ {a.id}
                           ELSE _unsub_after \ {a.id}
        /\ IF a.via = "debounced"
           THEN _timer_task' = TRUE /\ _execute_lock' = FALSE
           ELSE UNCHANGED <<_timer_task, _execute_lock>>
        /\ inflight' = RemoveAt(inflight, i)
        /\ IF a.via = "startup"
           THEN /\ pc' = "running"
                /\ tasks' = {"load_platform"} \cup
                       (IF r.raised THEN {"request_refresh"} ELSE {})
           ELSE UNCHANGED <<pc, tasks>>
        /\ last' = [NoOp EXCEPT !.op = "attempt", !.out = o,
                                !.raised = r.raised, !.exc = r.exc,
                                !.msg = r.msg, !.prev = Delays(timers),
                                !.same = (~r.raised /\ o = lastOk),
                                !.lost = IF r.raised \/ data = PyNone
                                              \/ r.data = PyNone
                                         THEN {}
                                         ELSE DOMAIN data.f \ DOMAIN r.data.f,
                                !.again = (r.raised /\ ~last_update_success)]
        /\ lastOk' = IF o \in WellFormedOutcomes THEN o ELSE lastOk
        /\ UNCHANGED <<domain_config, _symbols, _listeners,
                       _execute_at_end_of_timer, window>>

\* async_setup, lines 153-155: the task created when the initial refresh
\* failed runs coordinator.async_request_refresh().
StartupRequestRefresh ==
    /\ "request_refresh" \in tasks
    /\ tasks' = tasks \ {"request_refresh"}
    /\ async_request_refresh
    /\ last' = [NoOp EXCEPT !.op = "request_refresh",
                            !.started = Len(inflight') > Len(inflight)]
    /\ UNCHANGED <<pc, domain_config, _symbols, data, last_update_success,
                   _refresh_remover, timers, _listeners, lastOk>>

\* async_setup, lines 157-159: the sensor platform is loaded; its entities
\* register as listeners, and the first listener arms the interval timer.
LoadPlatform ==
    /\ "load_platform" \in tasks
    /\ NoTaskDue
    /\ tasks' = tasks \ {"load_platform"}
    /\ _listeners' = TRUE
    /\ _unsub_refresh' = TRUE
    /\ _unsub_after' = InFlightIds
    /\ last' = [NoOp EXCEPT !.op = "load_platform"]
    /\ UNCHANGED <<pc, domain_config, _symbols, data, last_update_success,
                   _refresh_remover, timers, _timer_task,
                   _execute_at_end_of_timer, _execute_lock, inflight, lastOk,
                   window>>

\* handle_refresh_symbols (the refresh service) or a consumer's update calls
\* coordinator.async_request_refresh().
RequestRefresh(caller) ==
    /\ pc = "running"
    /\ caller = "consumer" => _listeners
    /\ async_request_refresh
    /\ last' = [NoOp EXCEPT !.op = "request_refresh",
                            !.started = Len(inflight') > Len(inflight)]
    /\ UNCHANGED <<pc, tasks, domain_config, _symbols, data,
                   last_update_success, _refresh_remover, timers, _listeners,
                   lastOk>>

\* Faulty variant: the timer's callback awaits async_refresh() itself instead of
\* requesting a refresh from the debouncer.
async_request_refresh_later_direct(t) ==
    /\ t \in timers
    /\ t.after = {}
    /\ NoTaskDue
    /\ timers' = timers \ {t}
    /\ async_refresh_begin("timer")
    /\ window' = IF _execute_lock THEN window ELSE WindowClosed
    /\ last' = [NoOp EXCEPT !.op = "timer_fired",
                            !.started = Len(inflight') > Len(inflight)]
    /\ UNCHANGED <<pc, tasks, domain_config, _symbols, data,
                   last_update_success, _refresh_remover, _listeners,
                   _execute_lock, lastOk>>

\* A one-shot timer armed by _add_refresh_later fires:
\* async_request_refresh_later requests a refresh.
async_request_refresh_later(t) ==
    /\ t \in timers
    /\ t.after = {}
    /\ NoTaskDue
    /\ timers' = timers \ {t}
    /\ async_request_refresh
    /\ last' = [NoOp EXCEPT !.op = "timer_fired",
                            !.started = Len(inflight') > Len(inflight)]
    /\ UNCHANGED <<pc, tasks, domain_config, _symbols, data,
                   last_update_success, _refresh_remover, _listeners, lastOk>>

\* Debouncer._handle_timer_finish: the cooldown ends; a call remembered during
\* it runs async_refresh now.
DebouncerTimerFinish ==
    /\ _timer_task
    /\ NoTaskDue
    /\ IF ~_execute_at_end_of_timer
       THEN /\ _timer_task' = FALSE
            /\ window' = IF _execute_lock THEN window ELSE WindowClosed
            /\ UNCHANGED <<_execute_at_end_of_timer, _execute_lock, inflight,
                           _unsub_refresh, _unsub_after>>
       ELSE IF _execute_lock
       THEN /\ _timer_task' = FALSE
            /\ _execute_at_end_of_timer' = FALSE
            /\ UNCHANGED <<_execute_lock, inflight, _unsub_refresh,
                           _unsub_after, window>>
       ELSE /\ _execute_lock' = TRUE
            /\ window' = [window EXCEPT
                              !.attempts = Min(window.attempts + 1, MaxCount)]
            /\ async_refresh_begin("debounced")
    /\ last' = [NoOp EXCEPT !.op = "debounce_timer",
                            !.started = Len(inflight') > Len(inflight)]
    /\ UNCHANGED <<pc, tasks, domain_config, _symbols, data,
                   last_update_success, _refresh_remover, timers, _listeners,
                   lastOk>>

\* DataUpdateCoordinator._handle_refresh_interval: the update interval
\* elapsed; async_refresh runs, not through the debouncer.
IntervalTick ==
    /\ _unsub_refresh
    /\ _unsub_after = {}
    /\ NoTaskDue
    /\ async_refresh_begin("interval")
    /\ window' = IF _execute_lock THEN window ELSE WindowClosed
    /\ last' = [NoOp EXCEPT !.op = "interval",
                            !.started = Len(inflight') > Len(inflight)]
    /\ UNCHANGED <<pc, tasks, domain_config, _symbols, data,
                   last_update_success, _refresh_remover, timers, _listeners,
                   _execute_lock, lastOk>>

\* The symbols a consumer may ask for.
Symbols == {"BABA", "baba", "XYZ"}

\* A consumer (a sensor of the loaded platform) calls add_symbol(symbol).
AddSymbol(symbol) ==
    LET r == add_symbol(symbol)
    IN  /\ _listeners
        /\ Len(r.symbols) <= MaxSymbols
        /\ InPool(r.timers)
        /\ _symbols' = r.symbols
        /\ timers' = r.timers
        /\ _refresh_remover' = r.remover
        /\ last' = [NoOp EXCEPT !.op = "add_symbol", !.sym = symbol,
                                !.ret = r.ret, !.prev = Delays(timers)]
        /\ UNCHANGED <<pc, tasks, domain_config, data, last_update_success,
                       _listeners, _unsub_refresh, _unsub_after, _timer_task,
                       _execute_at_end_of_timer, _execute_lock, inflight,
                       lastOk, window>>

Next ==
    \/ SetupRefresh
    \/ \E i \in 1..Len(inflight) : \E o \in Outcomes : FetchComplete(i, o)
    \/ StartupRequestRefresh
    \/ LoadPlatform
    \/ \E caller \in {"service", "consumer"} : RequestRefresh(caller)
    \/ \E t \in timers : async_request_refresh_later(t)
    \/ DebouncerTimerFinish
    \/ IntervalTick
    \/ \E symbol \in Symbols : AddSymbol(symbol)

Spec == Init /\ [][Next]_vars

\* What the event loop and the source guarantee: a fetch ends (within
\* WEBSESSION_TIMEOUT), a created task runs, a one-shot timer that stays armed
\* fires, the debouncer's cooldown ends; and a source that is asked again and
\* again returns a good document at some point.  The update interval (hours,
\* or none), the refresh service and the consumers promise nothing.
Fairness ==
    /\ WF_vars(\E i \in 1..Len(inflight) : \E o \in Outcomes : FetchComplete(i, o))
    /\ WF_vars(StartupRequestRefresh)
    /\ WF_vars(LoadPlatform)
    /\ WF_vars(\E t \in timers : async_request_refresh_later(t))
    /\ WF_vars(DebouncerTimerFinish)
    /\ SF_vars(\E i \in 1..Len(inflight) :
                  \E o \in WellFormedOutcomes : FetchComplete(i, o))

FairSpec == Spec /\ Fairness

\* ================================================================ claims

\* The fetch outcomes that make a refresh attempt fail: the fetch raises or
\* times out, or the document is not one _async_update accepts.
FailureOutcomes == Outcomes \ WellFormedOutcomes

\* The timer the coordinator holds the remover of is the only live one, with
\* this delay.
ArmedWith(delay) == Handles(timers) = {<<_refresh_remover, delay>>}

\* C1: every failed refresh attempt ends with last_update_success false, with
\* one one-shot timer armed for the failure delay (20 s), and with the failure
\* raised to the caller of _async_update_with_retry; a timer that fires
\* requests a refresh.
C1_FailureArmsRetry ==
    /\ (last.op = "attempt" /\ last.out \in FailureOutcomes) =>
           /\ ~last_update_success
           /\ last.raised
           /\ ArmedWith(FAILURE_ASYNC_REQUEST_REFRESH)
    /\ last.op = "timer_fired" => window.calls >= 1

\* An attempt failed while parsing an element and left the retry timer armed.
C1_Witness ==
    /\ last.op = "attempt"
    /\ last.out = 8
    /\ last.exc = "KeyError"
    /\ ArmedWith(FAILURE_ASYNC_REQUEST_REFRESH)

\* C2: data is the Snapshot built by the most recent attempt that was given a
\* good document, or None when there was none: a failed attempt leaves it as
\* it was.
C2_DataIsLastGoodSnapshot ==
    data = IF lastOk = 0 THEN PyNone ELSE AsyncUpdateResult[lastOk].data

\* An attempt failed after an earlier one had stored a Snapshot.
C2_Witness ==
    /\ last.op = "attempt"
    /\ last.out \in FailureOutcomes
    /\ lastOk # 0
    /\ data # PyNone

\* The elements of the result list of a good document.
ResultOf(o) == Fetch(o).json.f["quoteResponse"].f["result"].l

\* No two elements of the result list have the same symbol.
PerSymbol(o) ==
    \A i, j \in 1..Len(ResultOf(o)) :
        ResultOf(o)[i]["symbol"] = ResultOf(o)[j]["symbol"] => i = j

SchemaKeys ==
    {NUMERIC_DATA_KEYS[i][1] : i \in 1..Len(NUMERIC_DATA_KEYS)}
        \cup Range(STRING_DATA_KEYS)

Upper(symbol) == IF symbol = "baba" THEN "BABA" ELSE symbol

\* C4: after add_symbol(s), get_symbols() holds exactly one copy of s in upper
\* case and no other spelling of it; adding a symbol that is present in any
\* letter case returns false.
C4_OneNormalizedCopy ==
    last.op = "add_symbol" =>
        /\ Cardinality({i \in 1..Len(get_symbols) :
                            get_symbols[i] = Upper(last.sym)}) = 1
        /\ Cardinality({i \in 1..Len(get_symbols) :
                            Upper(get_symbols[i]) = Upper(last.sym)}) = 1

\* C5: at most one one-shot timer is live, and it is the one the coordinator
\* holds the remover of: arming a timer cancels the one armed before.
C5_AtMostOneTimer ==
    /\ Cardinality(timers) <= 1
    /\ \A t \in timers : t.id = _refresh_remover

\* A timer was armed while another one was live, and replaced it.
C5_Witness ==
    /\ last.op \in {"attempt", "add_symbol"}
    /\ last.prev # {}
    /\ timers # {}
    /\ Delays(timers) # last.prev

C7_NewSymbolArmsWarmUp ==
    [][(last'.op = "add_symbol" /\ last'.sym \notin Range(_symbols)) =>
           /\ last'.ret
           /\ _symbols' = Append(_symbols, last'.sym)
           /\ Handles(timers') =
                  {<<_refresh_remover', DELAY_ASYNC_REQUEST_REFRESH>>}]_vars

\* A new symbol was added while the retry timer was armed.
C7_Witness ==
    /\ last.op = "add_symbol"
    /\ last.ret
    /\ last.prev = {FAILURE_ASYNC_REQUEST_REFRESH}
    /\ ArmedWith(DELAY_ASYNC_REQUEST_REFRESH)

\* C8: add_symbol starts no fetch and leaves data and last_update_success as
\* they are; for a symbol already in the list it returns false and leaves the
\* list and the armed timer as they are too.
C8_AddSymbolFrame ==
    [][last'.op = "add_symbol" =>
           /\ inflight' = inflight
           /\ data' = data
           /\ last_update_success' = last_update_success
           /\ last'.sym \in Range(_symbols) =>
                  /\ ~last'.ret
                  /\ UNCHANGED <<_symbols, timers, _refresh_remover>>]_vars

\* A symbol already in the list was added again while a timer was armed and a
\* Snapshot was stored.
C8_Witness ==
    /\ last.op = "add_symbol"
    /\ ~last.ret
    /\ timers # {}
    /\ data # PyNone

C10_OneFetchInFlight == Len(inflight) <= 1

\* The document the fetch of outcome o returned.
Payload(o) == Fetch(o).json

\* The document has the 'quoteResponse' container.
HasContainer(o) ==
    Payload(o).t = "obj" /\ "quoteResponse" \in DOMAIN Payload(o).f

Container(o) == Payload(o).f["quoteResponse"].f

\* The container has an 'error' that is not null.
EmbeddedError(o) ==
    /\ HasContainer(o)
    /\ "error" \in DOMAIN Container(o)
    /\ Container(o)["error"].t # "null"

\* The last attempt failed with UpdateFailed(msg).
FailedWith(msg) ==
    last.raised /\ last.exc = "UpdateFailed" /\ last.msg = msg

\* C11: a document that violates a validation check fails with the diagnostic
\* of the first check it violates, in the order: no document, no
\* 'quoteResponse', an 'error' that is not null (the diagnostic is the error
\* value, also when 'result' is null or missing), no 'result', null 'result';
\* the four fixed diagnostics differ from each other.
C11_FirstViolationDecides ==
    (last.op = "attempt" /\ ~Fetch(last.out).raised) =>
        LET o == last.out
        IN  /\ Payload(o).t = "null" => FailedWith(JStr("No data received"))
            /\ (Payload(o).t = "obj" /\ ~HasContainer(o)) =>
                   FailedWith(JStr("Data invalid, 'quoteResponse' not found."))
            /\ EmbeddedError(o) => FailedWith(Container(o)["error"])
            /\ (HasContainer(o) /\ ~EmbeddedError(o)
                    /\ "result" \notin DOMAIN Container(o)) =>
                   FailedWith(JStr("Data invalid, no 'result' found"))
            /\ (HasContainer(o) /\ ~EmbeddedError(o)
                    /\ "result" \in DOMAIN Container(o)
                    /\ Container(o)["result"].t = "null") =>
                   FailedWith(JStr("Data invalid, 'result' is None"))
            /\ Cardinality({"No data received",
                            "Data invalid, 'quoteResponse' not found.",
                            "Data invalid, no 'result' found",
                            "Data invalid, 'result' is None"}) = 4

\* An attempt given a document with both an embedded error and a null result
\* failed with the embedded error as its diagnostic.
C11_Witness ==
    /\ last.op = "attempt"
    /\ EmbeddedError(last.out)
    /\ Container(last.out)["result"].t = "null"
    /\ FailedWith(JStr("rate limited"))

\* C12 as stated: every failed attempt reaches the caller as UpdateFailed.
C12_AlwaysUpdateFailed ==
    (last.op = "attempt" /\ last.raised) => last.exc = "UpdateFailed"

\* C12 amended: a failed attempt reaches the caller as the exception that made
\* it fail, raised again unchanged: the fetch's own exception for a transport
\* failure, UpdateFailed with a reason for a document that violates a
\* validation check, KeyError for an element without 'symbol'.
C12_FailureKeepsItsKind ==
    (last.op = "attempt" /\ last.out \in FailureOutcomes) =>
        LET o == last.out
        IN  /\ last.raised
            /\ Fetch(o).raised => last.exc = Fetch(o).exc
            /\ (~Fetch(o).raised /\ last.exc # "UpdateFailed") =>
                   /\ last.exc = "KeyError"
                   /\ \E i \in 1..Len(Container(o)["result"].l) :
                          "symbol" \notin DOMAIN Container(o)["result"].l[i]
            /\ last.exc = "UpdateFailed" => last.msg # JNull

\* An attempt whose fetch timed out reached the caller as the timeout.
C12_Witness ==
    /\ last.op = "attempt"
    /\ last.raised
    /\ Fetch(last.out).raised
    /\ last.exc = "TimeoutError"
    /\ ~last_update_success

\* The numeric fields of the schema.
NumericKeys == {NUMERIC_DATA_KEYS[i][1] : i \in 1..Len(NUMERIC_DATA_KEYS)}

\* Element i of the result list is the last one with its symbol.
LastOfSymbol(o, i) ==
    \A j \in 1..Len(ResultOf(o)) :
        ResultOf(o)[j]["symbol"] = ResultOf(o)[i]["symbol"] => j <= i

\* C13: the QuoteRecord built from an element has exactly the fields of the
\* schema: a numeric field holds the element's value, or 0 when the element
\* lacks the key; a string field holds the element's value, or None when the
\* element lacks the key; the element's other keys are left out, and a
\* missing field does not make the attempt fail.
C13_RecordHasSchemaFields ==
    (last.op = "attempt" /\ last.out \in WellFormedOutcomes) =>
        /\ ~last.raised
        /\ \A i \in 1..Len(ResultOf(last.out)) :
               LET e == ResultOf(last.out)[i]
                   rec == data.f[e["symbol"].s]
               IN  LastOfSymbol(last.out, i) =>
                       /\ DOMAIN rec = SchemaKeys
                       /\ \A k \in NumericKeys :
                              rec[k] = IF k \in DOMAIN e THEN e[k] ELSE JNum(0)
                       /\ \A k \in SchemaKeys \ NumericKeys :
                              rec[k] = IF k \in DOMAIN e THEN e[k] ELSE JNull

\* A record was built from an element that lacks a numeric field and a string
\* field and has a key outside the schema.
C13_Witness ==
    /\ last.op = "attempt"
    /\ last.out = 10
    /\ data.t = "obj"
    /\ "BABA" \in DOMAIN data.f
    /\ data.f["BABA"]["regularMarketChange"] = JNum(0)
    /\ data.f["BABA"]["shortName"] = JNull
    /\ data.f["BABA"]["currency"] = JStr("USD")
    /\ "marketState" \in DOMAIN BABA_2
    /\ "marketState" \notin DOMAIN data.f["BABA"]

\* C14: a successful attempt given the same document as the successful attempt
\* before it leaves the Snapshot as it is; the Snapshot a successful attempt
\* stores is the one _async_update builds from the document alone, whatever
\* the Snapshot before, the symbol list and the timers are.
C14_SameDocumentSameSnapshot ==
    [][(last'.op = "attempt" /\ ~last'.raised) =>
           /\ last'.out = lastOk => data' = data
           /\ data' = AsyncUpdateResult[last'.out].data]_vars

\* An attempt succeeded with the document of the successful attempt before
\* it, after the symbol list had grown and with a timer armed.
C14_Witness ==
    /\ last.op = "attempt"
    /\ last.same
    /\ last_update_success
    /\ data # PyNone
    /\ Len(_symbols) > Len(domain_config)
    /\ timers # {}

\* C15: an attempt that starts its fetch requests the symbol list as it is at
\* that moment; add_symbol leaves the requests in flight as they are, so a
\* symbol added during a fetch is not in that request; the list never loses
\* a symbol, so the symbol is in the request of every attempt that starts
\* later.
C15_RequestIsListAtStart ==
    [][/\ Len(inflight') > Len(inflight) =>
              /\ inflight'[Len(inflight')].req = _symbols
              /\ SubSeq(inflight', 1, Len(inflight)) = inflight
       /\ last'.op = "add_symbol" => inflight' = inflight
       /\ Range(_symbols) \subseteq Range(_symbols')]_vars

\* A symbol was added while a fetch was in flight: the request in flight
\* does not have it, the list does.
C15_Witness ==
    /\ last.op = "add_symbol"
    /\ last.ret
    /\ last.sym \in Range(_symbols)
    /\ \E i \in 1..Len(inflight) : last.sym \notin Range(inflight[i].req)

\* Once an attempt has failed, another attempt starts.
C16_FailureIsRetried ==
    [](( last.op = "attempt" /\ last.raised) => <>last.started)

\* With a source that returns a good document at some point,
\* last_update_success becomes true again.
C16_SuccessComesBack ==
    [](~last_update_success => <>last_update_success)

C17_AddedSymbolIsRequested ==
    \A s \in Symbols :
        []((last.op = "add_symbol" /\ last.ret /\ last.sym = s) =>
               <>(last.started /\ s \in Range(inflight[Len(inflight)].req)))

\* C18: when the warm-up timer that stands for several add_symbol calls
\* fires, it is the only live timer and its one request gives one refresh
\* for all the symbols in the list: an attempt starts at once with all of them
\* in its request, or the request is kept for the end of the debouncer's
\* cooldown.
C18_BurstGivesOneRefresh ==
    [][\A t \in timers :
           (last'.op = "timer_fired" /\ t \notin timers' /\ t.adds >= 2) =>
               /\ timers = {t}
               /\ timers' = {}
               /\ \/ /\ last'.started
                     /\ inflight'[Len(inflight')].req = _symbols
                  \/ _execute_at_end_of_timer']_vars

\* The symbols of the elements of the result list of a good document.
ResultSymbols(o) == {ResultOf(o)[i]["symbol"].s : i \in 1..Len(ResultOf(o))}

\* C19: after a successful attempt the Snapshot has an entry for exactly the
\* symbols of the result list of its document: a symbol of the Snapshot
\* before that is not in the list has none, whatever the symbol list holds.
C19_SnapshotReplacedWhole ==
    [][(last'.op = "attempt" /\ ~last'.raised) =>
           /\ data'.t = "obj"
           /\ DOMAIN data'.f = ResultSymbols(last'.out)
           /\ data # PyNone =>
                  \A s \in DOMAIN data.f \ ResultSymbols(last'.out) :
                      s \notin DOMAIN data'.f]_vars

\* A successful attempt stored a Snapshot without a symbol that the Snapshot
\* before had and the symbol list still holds.
C19_Witness ==
    /\ last.op = "attempt"
    /\ last_update_success
    /\ "XYZ" \in last.lost
    /\ "XYZ" \in Range(_symbols)
    /\ "XYZ" \notin DOMAIN data.f

\* C20 as stated: every failed attempt arms the retry timer for the failure
\* delay, and no attempt starts while that timer is armed and has not fired
\* (the delay has not elapsed), the initial refresh at startup included.
C20_EveryRetryWaits ==
    /\ []((last.op = "attempt" /\ last.raised) =>
              ArmedWith(FAILURE_ASYNC_REQUEST_REFRESH))
    /\ [][last'.started =>
              \/ FAILURE_ASYNC_REQUEST_REFRESH \notin Delays(timers)
              \/ last'.op = "timer_fired"]_vars

\* C20 amended: every failed attempt, whatever the number of failures before
\* it, leaves the retry timer armed for the same failure delay (20 s); but
\* after a failed initial refresh async_setup requests a refresh at once, and
\* that request, unless the debouncer is busy with another one, starts an
\* attempt while the retry timer is still armed.
C20_FixedDelayNoLimit ==
    /\ []((last.op = "attempt" /\ last.raised) =>
              ArmedWith(FAILURE_ASYNC_REQUEST_REFRESH))
    /\ [][/\ (pc = "startup" /\ pc' = "running" /\ last'.raised) =>
                 "request_refresh" \in tasks'
          /\ ("request_refresh" \in tasks /\ "request_refresh" \notin tasks') =>
                 /\ Delays(timers') = {FAILURE_ASYNC_REQUEST_REFRESH}
                 /\ (~_execute_lock /\ ~_timer_task) => last'.started]_vars

\* An attempt failed right after a failed one and armed the same delay again.
C20_Witness ==
    /\ last.op = "attempt"
    /\ last.again
    /\ ~last_update_success
    /\ ArmedWith(FAILURE_ASYNC_REQUEST_REFRESH)

\* C21 as stated: in every state, also before the first attempt has
\* completed, last_update_success true means data is present.
C21_FlagImpliesData == last_update_success => data # PyNone

\* C21 amended: from the end of the initial refresh on (when consumers get
\* the coordinator), last_update_success true means data is present and is
\* the Snapshot of the attempt that completed last; every completed attempt
\* sets the flag to its outcome and no other step changes the flag or the
\* data.  Until then the flag is true (the framework's initial value) and
\* data is None.
C21_FlagMatchesSnapshot ==
    /\ [](pc = "running" =>
              (last_update_success =>
                   /\ data # PyNone
                   /\ lastOk # 0
                   /\ data = AsyncUpdateResult[lastOk].data))
    /\ [](pc # "running" => (last_update_success /\ data = PyNone))
    /\ [][/\ last'.op = "attempt" =>
                 /\ last_update_success' = ~last'.raised
                 /\ ~last'.raised => lastOk' = last'.out
          /\ last'.op # "attempt" =>
                 UNCHANGED <<last_update_success, data>>]_vars

\* A consumer sees the flag true and the Snapshot of the attempt that just
\* succeeded, after an earlier attempt had failed.
C21_Witness ==
    /\ pc = "running"
    /\ _listeners
    /\ last.op = "attempt"
    /\ last_update_success
    /\ last.prev = {FAILURE_ASYNC_REQUEST_REFRESH}
    /\ data # PyNone
    /\ data = AsyncUpdateResult[last.out].data

\* The symbol of a configured entry: the string, or the dict's "symbol".
SymbolOf(value) == IF value.t = "str" THEN value.s ELSE value.f["symbol"].s

ConfiguredSymbols(defined) == {SymbolOf(defined[i]) : i \in 1..Len(defined)}

\* Where symbol sym occurs first in the configured entries.
FirstAt(defined, sym) ==
    CHOOSE i \in 1..Len(defined) :
        /\ SymbolOf(defined[i]) = sym
        /\ \A j \in 1..(i - 1) : SymbolOf(defined[j]) # sym

\* seq holds each configured symbol exactly once.
EachOnce(seq, defined) ==
    /\ Range(seq) = ConfiguredSymbols(defined)
    /\ Len(seq) = Cardinality(ConfiguredSymbols(defined))

\* seq holds each configured symbol exactly once, in first-seen order.
FirstSeenOrder(seq, defined) ==
    /\ EachOnce(seq, defined)
    /\ \A p, q \in 1..Len(seq) :
           p < q => FirstAt(defined, seq[p]) < FirstAt(defined, seq[q])

\* The normalized definitions stored in the config are those of `defined`:
\* the first entry of each symbol, a plain string as {symbol: string}, in
\* first-seen order.
ConfigOf(defined) ==
    /\ FirstSeenOrder([i \in 1..Len(domain_config) |->
                           SymbolOf(domain_config[i])], defined)
    /\ \A i \in 1..Len(domain_config) :
           LET value == defined[FirstAt(defined, SymbolOf(domain_config[i]))]
           IN  domain_config[i] =
                   IF value.t = "str" THEN JObj([symbol |-> value]) ELSE value

\* C22 as stated: until add_symbol can extend it, the symbol sequence holds
\* each configured symbol once in first-seen order, the order of the
\* normalized definitions.
C22_FirstSeenOrder ==
    pc # "running" =>
        \E defined \in DefinedSymbols :
            /\ ConfigOf(defined)
            /\ FirstSeenOrder(_symbols, defined)
            /\ _symbols = [i \in 1..Len(domain_config) |->
                               SymbolOf(domain_config[i])]

\* C22 amended: the initial symbol sequence holds each configured symbol
\* exactly once, the same symbols as the normalized definitions, which are in
\* first-seen order; the order of the sequence itself is not determined.
C22_EachSymbolOnce ==
    pc # "running" =>
        \E defined \in DefinedSymbols :
            /\ ConfigOf(defined)
            /\ EachOnce(_symbols, defined)
            /\ Range(_symbols) =
                   {SymbolOf(domain_config[i]) : i \in 1..Len(domain_config)}

\* The initial refresh requests a sequence built from a config with plain and
\* dict entries and a duplicate, in another order than the normalized
\* definitions.
C22_Witness ==
    /\ pc = "startup"
    /\ Len(inflight) = 1
    /\ inflight[1].req = _symbols
    /\ Len(_symbols) = 2
    /\ Len(domain_config) = 2
    /\ _symbols[1] # SymbolOf(domain_config[1])
    /\ \E i \in 1..Len(domain_config) : "target_currency" \in DOMAIN domain_config[i].f

\* The symbol sequence has no two equal entries.
NoDuplicates ==
    \A i, j \in 1..Len(_symbols) : _symbols[i] = _symbols[j] => i = j

\* The symbol sequence has no two entries that differ only by case.
NoCaseVariants ==
    \A i, j \in 1..Len(_symbols) :
        Upper(_symbols[i]) = Upper(_symbols[j]) => i = j

\* Every step leaves the sequence as a prefix of the new one; only add_symbol
\* of a symbol that is not in it extends it, by that symbol at the end.
AppendOnly ==
    [][/\ Len(_symbols') >= Len(_symbols)
       /\ SubSeq(_symbols', 1, Len(_symbols)) = _symbols
       /\ _symbols' # _symbols =>
              /\ last'.op = "add_symbol"
              /\ last'.ret
              /\ last'.sym \notin Range(_symbols)
              /\ _symbols' = Append(_symbols, last'.sym)
       /\ last'.op # "add_symbol" => _symbols' = _symbols]_vars

\* C23: in every reachable state the symbol sequence has no duplicates and no
\* two entries differing only by case, and it only grows, by add_symbol of a
\* new symbol appending that symbol; attempts, timer firings and refresh
\* requests leave it unchanged.
C23_UniqueAndAppendOnly ==
    /\ []NoDuplicates
    /\ []NoCaseVariants
    /\ AppendOnly

====
